---- MODULE Spec2Model ----
(***************************************************************************)
(* Model of the dev-server builder of nx-plus/vue                          *)
(* (libs/vue/src/builders/dev-server/builder.ts): one invocation of        *)
(* runBuilder, from the call to the settlement of the delegate's promise.  *)
(*                                                                         *)
(* JavaScript values are tagged records; every tag has its own payload     *)
(* field, so values of different types are different records:              *)
(*   [t |-> "undefined"]            undefined                              *)
(*   [t |-> "bool", b |-> TRUE]     a boolean                              *)
(*   [t |-> "num",  n |-> 0]        a number                               *)
(*   [t |-> "str",  s |-> ""]       a string                               *)
(*   [t |-> "fn",   id |-> "f"]     a function, by identity                *)
(*   [t |-> "arr",  a |-> <<..>>]   an array                               *)
(*   [t |-> "obj",  o |-> f]        a plain object, f : key -> value       *)
(* The four option bags (options, rawBrowserOptions, browserOptions,       *)
(* inlineOptions ...) are kept as bare key -> value functions.             *)
(***************************************************************************)
EXTENDS Integers, Sequences, FiniteSets, TLC

VARIABLES
    pc,                \* position of the invocation in runBuilder / setup
    given,             \* the options as the caller passed them to runBuilder
    options,           \* the DevServerBuilderSchema object (mutated at line 59)
    rawBrowserOptions, \* result of context.getTargetOptions (line 69)
    overrides,         \* the overrides computed from options (lines 70-76)
    submitted,         \* the object handed to context.validateOptions (line 80)
    browserOptions,    \* result of context.validateOptions (line 78)
    babelConfig,       \* result of getBabelConfig (line 83)
    vueConfig,         \* resolveVueConfig(projectRoot) || {} (line 84)
    configureWebpack,  \* result of resolveConfigureWebpack (line 135)
    inlineOptions,     \* the merged options given to the delegate (line 98)
    warnings,          \* the messages passed to context.logger.warn
    calls,             \* the collaborator calls made so far, in order
    serviceRuns,       \* the service.run calls made so far (line 176)
    chainLog,          \* the patches applied by chainWebpack invocations
    chainCalls,        \* how often the delegate invoked inlineOptions.chainWebpack
    promise,           \* the promise service.run returned (line 176)
    stream             \* what the subscriber of the result stream received

vars == <<pc, given, options, rawBrowserOptions, overrides, submitted, browserOptions, babelConfig,
          vueConfig, configureWebpack, inlineOptions, warnings, calls,
          serviceRuns, chainLog, chainCalls, promise, stream>>

\* How often the delegate may invoke the chainWebpack hook during one run.
MaxChainCalls == 2

----------------------------------------------------------------------------
\* JavaScript values

Undef == [t |-> "undefined"]
Bool(b) == [t |-> "bool", b |-> b]
Num(n) == [t |-> "num", n |-> n]
Str(s) == [t |-> "str", s |-> s]
Fn(id) == [t |-> "fn", id |-> id]
Arr(a) == [t |-> "arr", a |-> a]
Obj(f) == [t |-> "obj", o |-> f]
EmptyObj == <<>>

\* obj[k]: undefined when the object has no such own property.
Get(f, k) == IF k \in DOMAIN f THEN f[k] ELSE Undef

\* ToBoolean, as `||` and `!` and `&&` apply it.
Truthy(v) ==
    CASE v.t = "undefined" -> FALSE
      [] v.t = "bool" -> v.b
      [] v.t = "num" -> v.n # 0
      [] v.t = "str" -> v.s # ""
      [] OTHER -> TRUE

\* a || b
OrElse(a, b) == IF Truthy(a) THEN a ELSE b

\* v?.k
OptChain(v, k) == IF v.t = "obj" THEN Get(v.o, k) ELSE Undef

\* { ...a, ...b }
Spread(a, b) == [k \in DOMAIN a \cup DOMAIN b |-> IF k \in DOMAIN b THEN b[k] ELSE a[k]]

----------------------------------------------------------------------------
\* runBuilder, lines 36-60: the whitelist and the css special case

devServerBuilderOverriddenKeys == {"mode", "skipPlugins", "publicPath", "css", "stdin"}

\* The condition of lines 53-58 on options.css.
AllCssUnsetAny(css) ==
    \/ Get(css.o, "requireModuleExtension") = Undef
    \/ Get(css.o, "extract") = Undef
    \/ Get(css.o, "sourceMap") = Undef
    \/ DOMAIN Get(css.o, "loaderOptions").o = {}

AllCssUnset(css) ==
    /\ Get(css.o, "requireModuleExtension") = Undef
    /\ Get(css.o, "extract") = Undef
    /\ Get(css.o, "sourceMap") = Undef
    /\ DOMAIN Get(css.o, "loaderOptions").o = {}

\* Lines 53-60: options.css = undefined when every css sub-option is unset.
NormalizeCss(opts) ==
    IF AllCssUnset(opts["css"]) THEN [opts EXCEPT !["css"] = Undef] ELSE opts

\* Lines 70-76, with the filter dropped.
OverridesNoWhitelist(opts) ==
    [k \in {key \in DOMAIN opts : opts[key] # Undef} |-> opts[k]]

\* Lines 70-76: the whitelisted keys of options whose value is not undefined.
Overrides(opts) ==
    [k \in {key \in DOMAIN opts :
                opts[key] # Undef /\ key \in devServerBuilderOverriddenKeys} |-> opts[k]]

\* Line 80: { ...rawBrowserOptions, ...overrides }
MergedBrowserOptions(raw, over) == Spread(raw, over)

\* Line 78: context.validateOptions returns the object it was given, with the
\* defaults of the browser builder's schema for the properties it lacks.
ValidateOptions(obj, schemaDefaults) ==
    [k \in DOMAIN obj \cup DOMAIN schemaDefaults |->
        IF k \in DOMAIN obj /\ obj[k] # Undef THEN obj[k]
        ELSE IF k \in DOMAIN schemaDefaults THEN schemaDefaults[k] ELSE obj[k]]

----------------------------------------------------------------------------
\* setup, lines 86-134: the merge of defaults, project config and explicit options

\* Lines 86-96.
defaults ==
    Obj( "publicPath" :> Str("/")
      @@ "transpileDependencies" :> Arr(<<>>)
      @@ "css" :> Obj( "requireModuleExtension" :> Bool(TRUE)
                    @@ "extract" :> Bool(FALSE)
                    @@ "sourceMap" :> Bool(FALSE)
                    @@ "loaderOptions" :> Obj(EmptyObj))
      @@ "devServer" :> Obj(EmptyObj))

\* The function of lines 103-127, by identity.
AdapterChainWebpack == Fn("chainWebpack@builder.ts:103")

\* Lines 102-133: the third argument of mergeOptions.
ExplicitLayer(bOpts, opts) ==
    Obj( "chainWebpack" :> AdapterChainWebpack
      @@ "publicPath" :> Get(bOpts, "publicPath")
      @@ "filenameHashing" :> Get(bOpts, "filenameHashing")
      @@ "css" :> Get(bOpts, "css")
      @@ "devServer" :> Get(opts, "devServer")
      @@ "transpileDependencies" :> Get(opts, "transpileDependencies"))

\* Object.assign in place of merge-options: shallow, undefined values copied.
MergeAssign(merged, source) ==
    IF source.t # "obj" \/ merged.t # "obj" THEN source
    ELSE Obj(Spread(merged.o, source.o))

\* merge-options' merge(merged, source, config) with the config of line 99,
\* { ignoreUndefined: true } (concatArrays stays false): a source that is not a
\* plain object, or meets a value that is not one, replaces it (a clone, the
\* same value); two plain objects are merged key by key, the keys of the source
\* whose value is undefined being skipped.
RECURSIVE Merge(_, _)
Merge(merged, source) ==
    IF source.t # "obj" \/ merged.t # "obj" THEN source
    ELSE LET keys == {k \in DOMAIN source.o : source.o[k] # Undef}
         IN Obj([k \in DOMAIN merged.o \cup keys |->
                    IF k \notin keys THEN merged.o[k]
                    ELSE IF k \in DOMAIN merged.o
                         THEN Merge(merged.o[k], source.o[k])
                         ELSE source.o[k]])

\* Lines 98-134: mergeOptions.call({ignoreUndefined: true}, defaults, vueConfig, {...}).
MergeOptions(vConf, bOpts, opts) ==
    Merge(Merge(Merge(Obj(EmptyObj), defaults), Obj(vConf)), ExplicitLayer(bOpts, opts)).o

----------------------------------------------------------------------------
\* The chainWebpack hook, lines 103-127

AdapterPatches ==
    <<"modifyIndexHtmlPath", "modifyEntryPoint", "modifyTsConfigPaths",
      "modifyCachePaths", "modifyTypescriptAliases">>

\* The hook with the project's own chainWebpack called first.
ChainWebpackProjectFirst(babel, opts, vConf) ==
       (IF Truthy(Get(vConf, "chainWebpack")) THEN <<"vueConfig.chainWebpack">> ELSE <<>>)
    \o AdapterPatches
    \o (IF Truthy(babel) THEN <<"modifyBabelLoader">> ELSE <<>>)
    \o (IF ~Truthy(Get(opts, "watch")) THEN <<"plugin(vue-cli)">> ELSE <<>>)

\* Lines 104-126: the calls one invocation of the hook makes, in order.
ChainWebpack(babel, opts, vConf) ==
       AdapterPatches
    \o (IF Truthy(babel) THEN <<"modifyBabelLoader">> ELSE <<>>)
    \o (IF ~Truthy(Get(opts, "watch")) THEN <<"plugin(vue-cli)">> ELSE <<>>)
    \o (IF Truthy(Get(vConf, "chainWebpack")) THEN <<"vueConfig.chainWebpack">> ELSE <<>>)

\* What calling inlineOptions.chainWebpack does: the adapter's hook, or the
\* project's own when that is the function stored there.
InvokeChainWebpack(fn, babel, opts, vConf) ==
    IF fn = AdapterChainWebpack THEN ChainWebpack(babel, opts, vConf)
    ELSE IF fn.t = "fn" THEN <<"vueConfig.chainWebpack">>
    ELSE <<>>

----------------------------------------------------------------------------
\* The delegate call, lines 176-190

\* `??` in place of `||`.
FallbackNullish(opts, inl, k) ==
    IF Get(opts, k) # Undef THEN Get(opts, k) ELSE OptChain(Get(inl, "devServer"), k)

\* options.k || inlineOptions.devServer?.k (lines 179, 183-186).
Fallback(opts, inl, k) == OrElse(Get(opts, k), OptChain(Get(inl, "devServer"), k))

\* Lines 178-188: the second argument of service.run.
ServeArgs(opts, bOpts, inl) ==
       "open" :> Fallback(opts, inl, "open")
    @@ "copy" :> Get(opts, "copy")
    @@ "stdin" :> Get(opts, "stdin")
    @@ "mode" :> Get(bOpts, "mode")
    @@ "host" :> Fallback(opts, inl, "host")
    @@ "port" :> Fallback(opts, inl, "port")
    @@ "https" :> Fallback(opts, inl, "https")
    @@ "public" :> Fallback(opts, inl, "public")
    @@ "skip-plugins" :> Get(bOpts, "skipPlugins")

\* The call with the build command of the browser builder.
RunCallBuild(opts, bOpts, inl) ==
    [name |-> "build", args |-> ServeArgs(opts, bOpts, inl), rawArgv |-> <<"build">>]

\* Lines 176-190: service.run('serve', {...}, ['serve']).
RunCall(opts, bOpts, inl) ==
    [name |-> "serve", args |-> ServeArgs(opts, bOpts, inl), rawArgv |-> <<"serve">>]

----------------------------------------------------------------------------
\* The result stream, lines 165-196

NewStream == [values |-> <<>>, errors |-> <<>>, status |-> "open"]

\* Subscriber.next / Subscriber.error: a stream that has ended delivers nothing.
Emit(s, v) == IF s.status = "open" THEN [s EXCEPT !.values = Append(@, v)] ELSE s
Fail(s, e) ==
    IF s.status = "open"
    THEN [s EXCEPT !.errors = Append(@, e), !.status = "errored"] ELSE s
Complete(s) == IF s.status = "open" THEN [s EXCEPT !.status = "completed"] ELSE s

\* Line 195: ({ url }) => ({ success: true, baseUrl: url }).
BuilderOutput(success) ==
    [success |-> TRUE, baseUrl |-> OptChain(success, "url")]

\* The fulfilment handler completing the stream after its value.
OnFulfilledComplete(s, success) ==
    IF success.t = "undefined" THEN Fail(s, "TypeError")
    ELSE Complete(Emit(s, BuilderOutput(success)))

\* Lines 191 and 195: obs.next(success), then the map operator; destructuring
\* undefined throws inside map, which turns the throw into an error.  Nothing
\* calls obs.complete().
OnFulfilled(s, success) ==
    IF success.t = "undefined" THEN Fail(s, "TypeError")
    ELSE Emit(s, BuilderOutput(success))

\* A promise chain without its catch handler: the rejection reaches nobody.
OnRejectedSwallow(s, err) == s

\* A rejection answered with a failure record instead of an error.
OnRejectedRecover(s, err) == Emit(s, [success |-> FALSE, baseUrl |-> Undef])

\* Line 192: obs.error(err).
OnRejected(s, err) == Fail(s, err)

\* Lines 165-167: a rejected setup promise, or a throw inside the switchMap
\* projection, is the stream's error.
OnThrow(s, err) == Fail(s, err)

----------------------------------------------------------------------------
\* setup, lines 135-141: the legacy configure-webpack.js hook

DeprecationWarning ==
    "\"configure-webpack.js\" has been deprecated. Please move this function to the \"vue-nx.config.js\" file."

\* The warning logged whether or not the hook file exists.
WarnAlways(w, hook) == Append(w, DeprecationWarning)

\* Lines 136-139.
WarnConfigureWebpack(w, hook) ==
    IF Truthy(hook) THEN Append(w, DeprecationWarning) ELSE w

\* Lines 136, 140.
SetConfigureWebpack(inl, hook) ==
    IF Truthy(hook)
    THEN [k \in DOMAIN inl \cup {"configureWebpack"} |->
            IF k = "configureWebpack" THEN hook ELSE inl[k]]
    ELSE inl

----------------------------------------------------------------------------
\* The inputs of one invocation and the answers of its collaborators

\* options.css as the schema delivers it: always an object with loaderOptions.
CssChoices ==
    { Obj("loaderOptions" :> Obj(EmptyObj)),
      Obj("extract" :> Undef @@ "loaderOptions" :> Obj(EmptyObj)),
      Obj("extract" :> Bool(TRUE) @@ "loaderOptions" :> Obj(EmptyObj)),
      Obj("loaderOptions" :> Obj("sass" :> Obj("prependData" :> Str("$brand: red;")))),
      Obj("requireModuleExtension" :> Bool(FALSE) @@ "sourceMap" :> Bool(TRUE)
          @@ "loaderOptions" :> Obj(EmptyObj)) }

\* mode, skipPlugins, publicPath, stdin of the invocation.
BuildKeyChoices ==
    { EmptyObj,
      "mode" :> Str("production") @@ "stdin" :> Bool(TRUE),
      "mode" :> Undef @@ "publicPath" :> Str("/app/") @@ "skipPlugins" :> Str("eslint")
          @@ "stdin" :> Bool(FALSE) }

\* open, copy, host, port, https, public of the invocation.
ServeKeyChoices ==
    { EmptyObj,
      "open" :> Bool(FALSE) @@ "host" :> Str("") @@ "port" :> Num(0)
          @@ "https" :> Bool(FALSE) @@ "public" :> Str(""),
      "open" :> Bool(TRUE) @@ "host" :> Str("0.0.0.0") @@ "port" :> Num(4200)
          @@ "https" :> Bool(TRUE) @@ "public" :> Str("dev.example.com")
          @@ "copy" :> Bool(TRUE),
      "open" :> Bool(TRUE) @@ "host" :> Str("") @@ "port" :> Num(4200)
          @@ "https" :> Bool(FALSE) @@ "copy" :> Bool(FALSE) }

\* devServer, transpileDependencies of the invocation.
ExtraKeyChoices ==
    { EmptyObj,
      "devServer" :> Obj("port" :> Num(9000) @@ "https" :> Bool(FALSE)
                             @@ "host" :> Undef)
          @@ "transpileDependencies" :> Arr(<<"lodash-es">>) }

OptionsChoices ==
    { ("browserTarget" :> Str("app:build")) @@ ("watch" :> Bool(w)) @@ ("css" :> c)
        @@ b @@ s @@ e :
      w \in BOOLEAN, c \in CssChoices, b \in BuildKeyChoices,
      s \in ServeKeyChoices, e \in ExtraKeyChoices }

\* What context.getTargetOptions may answer.
RawBrowserOptionsChoices ==
    { EmptyObj,
      "mode" :> Str("development") @@ "publicPath" :> Str("/raw/")
          @@ "filenameHashing" :> Bool(FALSE) @@ "index" :> Str("public/index.html")
          @@ "css" :> Obj("extract" :> Bool(FALSE)),
      "main" :> Str("src/main.ts") @@ "skipPlugins" :> Str("pwa")
          @@ "stdin" :> Bool(FALSE)
          @@ "css" :> Obj("sourceMap" :> Bool(TRUE)
                          @@ "loaderOptions" :> Obj("less" :> Obj(EmptyObj))) }

\* The defaults context.validateOptions may fill in from the browser schema.
SchemaDefaultsChoices ==
    { EmptyObj,
      "mode" :> Str("development") @@ "filenameHashing" :> Bool(TRUE) }

\* What resolveVueConfig may answer: undefined without a config file.
VueConfigChoices ==
    { Undef,
      Obj("publicPath" :> Str("/vue/") @@ "lintOnSave" :> Bool(FALSE)
          @@ "chainWebpack" :> Fn("chainWebpack@vue-nx.config.js")
          @@ "css" :> Obj("extract" :> Bool(TRUE)
                          @@ "loaderOptions" :> Obj("sass" :> Obj("implementation" :> Str("sass"))))
          @@ "devServer" :> Obj("open" :> Bool(TRUE) @@ "host" :> Str("vue.local")
                                @@ "port" :> Num(8080) @@ "https" :> Bool(TRUE)
                                @@ "public" :> Str("vue.example.com"))),
      Obj("filenameHashing" :> Bool(FALSE)
          @@ "configureWebpack" :> Fn("configureWebpack@vue-nx.config.js")
          @@ "transpileDependencies" :> Arr(<<"vuetify">>)
          @@ "css" :> Obj("sourceMap" :> Undef @@ "requireModuleExtension" :> Bool(FALSE))
          @@ "devServer" :> Obj("port" :> Num(8080) @@ "proxy" :> Str("http://api"))) }

BabelConfigChoices == { Undef, Str("babel.config.js") }

ConfigureWebpackChoices == { Undef, Fn("configure-webpack.js") }

\* What the promise of service.run may be fulfilled with.
SuccessChoices ==
    { Obj("url" :> Str("http://localhost:8080/")),
      Obj("url" :> Str("https://0.0.0.0:4200/") @@ "server" :> Str("WebpackDevServer")),
      Undef }

\* What it may be rejected with.
RejectionChoices == { "EADDRINUSE", "ValidationError" }

----------------------------------------------------------------------------
\* The invocation

Init ==
    /\ pc = "start"
    /\ options \in OptionsChoices
    /\ given = options
    /\ rawBrowserOptions = EmptyObj
    /\ overrides = EmptyObj
    /\ submitted = EmptyObj
    /\ browserOptions = EmptyObj
    /\ babelConfig = Undef
    /\ vueConfig = EmptyObj
    /\ configureWebpack = Undef
    /\ inlineOptions = EmptyObj
    /\ warnings = <<>>
    /\ calls = <<>>
    /\ serviceRuns = <<>>
    /\ chainLog = <<>>
    /\ chainCalls = 0
    /\ promise = [state |-> "none"]
    /\ stream = NewStream

\* Lines 53-60 and 165: the css special case, then setup() starts.
RunBuilder ==
    /\ pc = "start"
    /\ options' = NormalizeCss(options)
    /\ pc' = "getTargetOptions"
    /\ UNCHANGED <<given, rawBrowserOptions, overrides, submitted, browserOptions, babelConfig,
                   vueConfig, configureWebpack, inlineOptions, warnings, calls, serviceRuns,
                   chainLog, chainCalls, promise, stream>>

\* Lines 68-76: await context.getTargetOptions(browserTarget); on its answer
\* the overrides are computed from options, before the await of line 77.
GetTargetOptions ==
    /\ pc = "getTargetOptions"
    /\ calls' = Append(calls, "getTargetOptions")
    /\ \/ /\ rawBrowserOptions' \in RawBrowserOptionsChoices
          /\ overrides' = Overrides(options)
          /\ pc' = "getBuilderNameForTarget"
          /\ stream' = stream
       \/ /\ rawBrowserOptions' = rawBrowserOptions
          /\ overrides' = overrides
          /\ pc' = "failed"
          /\ stream' = OnThrow(stream, "getTargetOptions")
    /\ UNCHANGED <<given, options, submitted, browserOptions, babelConfig, vueConfig,
                   configureWebpack, inlineOptions, warnings, serviceRuns,
                   chainLog, chainCalls, promise>>

\* Line 77: await context.getBuilderNameForTarget(browserTarget).
GetBuilderNameForTarget ==
    /\ pc = "getBuilderNameForTarget"
    /\ calls' = Append(calls, "getBuilderNameForTarget")
    /\ \/ pc' = "validateOptions" /\ stream' = stream
       \/ pc' = "failed" /\ stream' = OnThrow(stream, "getBuilderNameForTarget")
    /\ UNCHANGED <<given, options, rawBrowserOptions, overrides, submitted, browserOptions, babelConfig,
                   vueConfig, configureWebpack, inlineOptions, warnings, serviceRuns,
                   chainLog, chainCalls, promise>>

\* Lines 78-80: await context.validateOptions({ ...rawBrowserOptions, ...overrides }),
\* with the overrides computed before the await of line 77.
ValidateBrowserOptions ==
    /\ pc = "validateOptions"
    /\ calls' = Append(calls, "validateOptions")
    /\ submitted' = MergedBrowserOptions(rawBrowserOptions, overrides)
    /\ \/ /\ \E d \in SchemaDefaultsChoices :
                browserOptions' = ValidateOptions(submitted', d)
          /\ pc' = "getProjectRoot"
          /\ stream' = stream
       \/ /\ browserOptions' = browserOptions
          /\ pc' = "failed"
          /\ stream' = OnThrow(stream, "validateOptions")
    /\ UNCHANGED <<given, options, rawBrowserOptions, overrides, babelConfig, vueConfig, configureWebpack,
                   inlineOptions, warnings, serviceRuns, chainLog, chainCalls, promise>>

\* Line 82: await getProjectRoot(context).
GetProjectRoot ==
    /\ pc = "getProjectRoot"
    /\ calls' = Append(calls, "getProjectRoot")
    /\ \/ pc' = "resolveConfig" /\ stream' = stream
       \/ pc' = "failed" /\ stream' = OnThrow(stream, "getProjectRoot")
    /\ UNCHANGED <<given, options, rawBrowserOptions, overrides, submitted, browserOptions, babelConfig,
                   vueConfig, configureWebpack, inlineOptions, warnings, serviceRuns,
                   chainLog, chainCalls, promise>>

\* Lines 83-134: getBabelConfig, resolveVueConfig and the merge.
ResolveConfig ==
    /\ pc = "resolveConfig"
    /\ \/ /\ calls' = calls \o <<"getBabelConfig", "resolveVueConfig">>
          /\ babelConfig' \in BabelConfigChoices
          /\ \E v \in VueConfigChoices :
                vueConfig' = (IF Truthy(v) THEN v.o ELSE EmptyObj)
          /\ inlineOptions' = MergeOptions(vueConfig', browserOptions, options)
          /\ pc' = "resolveConfigureWebpack"
          /\ stream' = stream
       \/ /\ calls' = calls \o <<"getBabelConfig", "resolveVueConfig">>
          /\ UNCHANGED <<babelConfig, vueConfig, inlineOptions>>
          /\ pc' = "failed"
          /\ stream' = OnThrow(stream, "resolveVueConfig")
    /\ UNCHANGED <<given, options, rawBrowserOptions, overrides, submitted, browserOptions,
                   configureWebpack, warnings, serviceRuns, chainLog, chainCalls, promise>>

\* Lines 135-147: the legacy hook; setup's promise is fulfilled.
ResolveConfigureWebpack ==
    /\ pc = "resolveConfigureWebpack"
    /\ calls' = Append(calls, "resolveConfigureWebpack")
    /\ configureWebpack' \in ConfigureWebpackChoices
    /\ warnings' = WarnConfigureWebpack(warnings, configureWebpack')
    /\ inlineOptions' = SetConfigureWebpack(inlineOptions, configureWebpack')
    /\ pc' = "checkUnsupportedConfig"
    /\ UNCHANGED <<given, options, rawBrowserOptions, overrides, submitted, browserOptions, babelConfig,
                   vueConfig, serviceRuns, chainLog, chainCalls, promise, stream>>

\* Line 167: checkUnsupportedConfig(context, projectRoot), inside switchMap.
CheckUnsupportedConfig ==
    /\ pc = "checkUnsupportedConfig"
    /\ calls' = Append(calls, "checkUnsupportedConfig")
    /\ \/ pc' = "newService" /\ stream' = stream
       \/ pc' = "failed" /\ stream' = OnThrow(stream, "checkUnsupportedConfig")
    /\ UNCHANGED <<given, options, rawBrowserOptions, overrides, submitted, browserOptions, babelConfig,
                   vueConfig, configureWebpack, inlineOptions, warnings, serviceRuns,
                   chainLog, chainCalls, promise>>

\* Lines 169-190: new Service(...), then service.run('serve', ...).
StartService ==
    /\ pc = "newService"
    /\ \/ /\ calls' = calls \o <<"Service", "run">>
          /\ serviceRuns' = Append(serviceRuns, RunCall(options, browserOptions, inlineOptions))
          /\ promise' = [state |-> "pending"]
          /\ pc' = "running"
          /\ stream' = stream
       \/ /\ calls' = Append(calls, "Service")
          /\ UNCHANGED <<serviceRuns, promise>>
          /\ pc' = "failed"
          /\ stream' = OnThrow(stream, "Service")
    /\ UNCHANGED <<given, options, rawBrowserOptions, overrides, submitted, browserOptions, babelConfig,
                   vueConfig, configureWebpack, inlineOptions, warnings,
                   chainLog, chainCalls>>

\* The delegate calls inlineOptions.chainWebpack while it builds its webpack
\* configuration (lines 103-127 run).
DelegateChainWebpack ==
    /\ pc = "running"
    /\ chainCalls < MaxChainCalls
    /\ chainCalls' = chainCalls + 1
    /\ chainLog' = Append(chainLog,
                          InvokeChainWebpack(Get(inlineOptions, "chainWebpack"),
                                             babelConfig, options, vueConfig))
    /\ UNCHANGED <<pc, given, options, rawBrowserOptions, overrides, submitted, browserOptions, babelConfig,
                   vueConfig, configureWebpack, inlineOptions, warnings, calls,
                   serviceRuns, promise, stream>>

\* Line 191: the promise of service.run is fulfilled.
DelegateResolves ==
    /\ pc = "running"
    /\ \E success \in SuccessChoices :
          /\ promise' = [state |-> "fulfilled", value |-> success]
          /\ stream' = OnFulfilled(stream, success)
    /\ pc' = "settled"
    /\ UNCHANGED <<given, options, rawBrowserOptions, overrides, submitted, browserOptions, babelConfig,
                   vueConfig, configureWebpack, inlineOptions, warnings, calls,
                   serviceRuns, chainLog, chainCalls>>

\* Line 192: the promise of service.run is rejected.
DelegateRejects ==
    /\ pc = "running"
    /\ \E err \in RejectionChoices :
          /\ promise' = [state |-> "rejected", reason |-> err]
          /\ stream' = OnRejected(stream, err)
    /\ pc' = "settled"
    /\ UNCHANGED <<given, options, rawBrowserOptions, overrides, submitted, browserOptions, babelConfig,
                   vueConfig, configureWebpack, inlineOptions, warnings, calls,
                   serviceRuns, chainLog, chainCalls>>

Next ==
    \/ RunBuilder
    \/ GetTargetOptions
    \/ GetBuilderNameForTarget
    \/ ValidateBrowserOptions
    \/ GetProjectRoot
    \/ ResolveConfig
    \/ ResolveConfigureWebpack
    \/ CheckUnsupportedConfig
    \/ StartService
    \/ DelegateChainWebpack
    \/ DelegateResolves
    \/ DelegateRejects

Spec == Init /\ [][Next]_vars

----------------------------------------------------------------------------
\* Vocabulary of the properties

Called(name) == \E i \in DOMAIN calls : calls[i] = name

Count(seq, x) == Cardinality({i \in DOMAIN seq : seq[i] = x})

\* inlineOptions has been built (line 134 has run).
Merged == Called("resolveVueConfig") /\ inlineOptions # EmptyObj

\* The three layers of the merge, lowest priority first.
Layers == <<defaults.o, vueConfig, ExplicitLayer(browserOptions, options).o>>

\* The keys more than one layer has.
OverlapKeys ==
    {k \in DOMAIN Layers[1] \cup DOMAIN Layers[2] \cup DOMAIN Layers[3] :
        Cardinality({i \in 1..3 : k \in DOMAIN Layers[i]}) > 1}

\* The value of the highest-priority layer that has a value other than
\* undefined for the key.
TopValue(k) ==
    LET has == {i \in 1..3 : Get(Layers[i], k) # Undef}
    IN IF has = {} THEN Undef
       ELSE Layers[CHOOSE i \in has : \A j \in has : j <= i][k]

\* Precedence read key by key: of the values a key has in the layers (lowest
\* priority first) the highest one that is not undefined wins; when it is a
\* plain object, it and the plain objects directly below it in priority are
\* combined, each of their keys being settled by the same rule.
RECURSIVE ByPrecedence(_)
ByPrecedence(vals) ==
    LET has == {i \in DOMAIN vals : vals[i] # Undef}
    IN IF has = {} THEN Undef
       ELSE LET top == CHOOSE i \in has : \A j \in has : j <= i
            IN IF vals[top].t # "obj" THEN vals[top]
               ELSE LET objs == {i \in has : \A j \in has : j >= i => vals[j].t = "obj"}
                        low == CHOOSE i \in objs : \A j \in objs : i <= j
                        keys == DOMAIN vals[low].o \cup
                                UNION {{k \in DOMAIN vals[i].o : vals[i].o[k] # Undef} :
                                          i \in objs}
                    IN Obj([k \in keys |->
                              ByPrecedence([i \in DOMAIN vals |->
                                  IF i \in objs THEN Get(vals[i].o, k) ELSE Undef])])

Falsy == {Undef, Bool(FALSE), Num(0), Str("")}

CssSubOptions == {"requireModuleExtension", "extract", "sourceMap"}

GivenCssUnset ==
    /\ \A k \in CssSubOptions :
          k \in DOMAIN given["css"].o => given["css"].o[k].t = "undefined"
    /\ Cardinality(DOMAIN given["css"].o["loaderOptions"].o) = 0

SetupOrder ==
    <<"getTargetOptions", "getBuilderNameForTarget", "validateOptions", "getProjectRoot",
      "getBabelConfig", "resolveVueConfig", "resolveConfigureWebpack",
      "checkUnsupportedConfig">>

----------------------------------------------------------------------------
\* C1 as stated: for every key more than one layer has, inlineOptions holds the
\* value of the highest-priority layer that has one (explicit options, then the
\* project config, then the defaults).
C1_LayerValueWins ==
    Merged => \A k \in OverlapKeys : Get(inlineOptions, k) = TopValue(k)

\* C1, amended: for every key more than one layer has, the highest-priority
\* value that is not undefined wins, and where that value is a plain object it
\* is merged key by key, by the same rule, with the plain objects below it.
C1_DeepPrecedence ==
    Merged => \A k \in OverlapKeys :
                 Get(inlineOptions, k) = ByPrecedence([i \in 1..3 |-> Get(Layers[i], k)])

\* An undefined explicit publicPath leaves the project config's one in place,
\* and the explicit css object is merged into, not copied over, the lower css.
C1_Witness ==
    /\ Merged
    /\ Get(Layers[3], "publicPath") = Undef
    /\ Get(Layers[2], "publicPath") = Str("/vue/")
    /\ Get(inlineOptions, "publicPath") = Str("/vue/")
    /\ Get(Layers[3], "css").t = "obj"
    /\ Get(inlineOptions, "css") # Get(Layers[3], "css")
    /\ Get(Get(inlineOptions, "css").o, "extract") = Bool(TRUE)

\* C2: called with a css whose four sub-options are all unset, runBuilder sets
\* options.css to undefined and the object given to validateOptions has the
\* browser target's css (or none); with a sub-option set, options.css stays as
\* given and is the css submitted.
C2_CssLeftUnset ==
    pc # "start" =>
        IF GivenCssUnset
        THEN /\ options["css"] = Undef
             /\ Called("validateOptions") =>
                   /\ ("css" \in DOMAIN submitted) = ("css" \in DOMAIN rawBrowserOptions)
                   /\ Get(submitted, "css") = Get(rawBrowserOptions, "css")
        ELSE /\ options["css"] = given["css"]
             /\ Called("validateOptions") => Get(submitted, "css") = given["css"]

C2_Witness ==
    /\ GivenCssUnset
    /\ Called("validateOptions")
    /\ "extract" \in DOMAIN given["css"].o
    /\ Get(rawBrowserOptions, "css").t = "obj"
    /\ Get(submitted, "css") = rawBrowserOptions["css"]
    /\ Get(browserOptions, "css") = rawBrowserOptions["css"]

\* C3: the subscriber never has more than one notification, and once the
\* invocation has failed or the delegate's promise has settled it has exactly
\* one: one success value and no error, or one error and no success value.
C3_ExactlyOneResult ==
    /\ Len(stream.values) + Len(stream.errors) <= 1
    /\ pc \in {"settled", "failed"} =>
          \/ Len(stream.values) = 1 /\ Len(stream.errors) = 0
          \/ Len(stream.values) = 0 /\ Len(stream.errors) = 1
    /\ pc \notin {"settled", "failed"} =>
          Len(stream.values) = 0 /\ Len(stream.errors) = 0

C3_Witness ==
    /\ pc = "settled"
    /\ promise.state = "rejected"
    /\ Len(stream.errors) = 1
    /\ Len(stream.values) = 0

\* C4: the deprecation warning is logged (once) exactly when
\* resolveConfigureWebpack returned a hook; then the hook is
\* inlineOptions.configureWebpack, and when it returned none inlineOptions is
\* the merge result, untouched.
C4_WarnIffHook ==
    /\ Len(warnings) <= 1
    /\ \A i \in DOMAIN warnings : warnings[i] = DeprecationWarning
    /\ (warnings # <<>>) = (Called("resolveConfigureWebpack") /\ configureWebpack # Undef)
    /\ Called("resolveConfigureWebpack") =>
          IF configureWebpack # Undef
          THEN Get(inlineOptions, "configureWebpack") = configureWebpack
          ELSE inlineOptions = MergeOptions(vueConfig, browserOptions, options)

C4_Witness ==
    /\ Called("resolveConfigureWebpack")
    /\ configureWebpack = Fn("configure-webpack.js")
    /\ warnings = <<DeprecationWarning>>
    /\ Get(vueConfig, "configureWebpack") = Fn("configureWebpack@vue-nx.config.js")
    /\ inlineOptions["configureWebpack"] = Fn("configure-webpack.js")

\* C5: when the delegate's promise is rejected, the subscriber gets that very
\* error as the stream's only notification, no value, and run was called once.
C5_RejectionForwarded ==
    promise.state = "rejected" =>
        /\ stream.errors = <<promise.reason>>
        /\ stream.values = <<>>
        /\ stream.status = "errored"
        /\ Len(serviceRuns) = 1
        /\ Count(calls, "run") = 1
        /\ Count(calls, "Service") = 1

C5_Witness ==
    /\ promise.state = "rejected"
    /\ promise.reason = "EADDRINUSE"
    /\ stream.errors = <<"EADDRINUSE">>

\* C6: the object given to validateOptions is the raw browser options with
\* exactly the whitelisted keys replaced that options holds with a value other
\* than undefined; every other key is as in the raw options.
C6_OnlyWhitelistedOverrides ==
    Called("validateOptions") =>
        \A k \in DOMAIN submitted \cup DOMAIN rawBrowserOptions \cup DOMAIN options :
            IF /\ k \in {"mode", "skipPlugins", "publicPath", "css", "stdin"}
               /\ k \in DOMAIN options
               /\ options[k] # Undef
            THEN k \in DOMAIN submitted /\ submitted[k] = options[k]
            ELSE /\ (k \in DOMAIN submitted) = (k \in DOMAIN rawBrowserOptions)
                 /\ k \in DOMAIN rawBrowserOptions => submitted[k] = rawBrowserOptions[k]

C6_Witness ==
    /\ Called("validateOptions")
    /\ Get(rawBrowserOptions, "mode") = Str("development")
    /\ Get(submitted, "mode") = Str("production")
    /\ Get(submitted, "index") = Str("public/index.html")
    /\ Get(options, "host") = Str("0.0.0.0")
    /\ "host" \notin DOMAIN submitted
    /\ "watch" \notin DOMAIN submitted

\* C7 as stated: once the success record has been delivered the stream has
\* reached a terminal state.
C7_TerminalAfterEmission ==
    stream.values # <<>> => stream.status \in {"completed", "errored"}

\* C7, amended: once the success record {success: true, baseUrl: url} has been
\* delivered, the stream delivers nothing more, neither value nor error, but it
\* is not completed: it stays open.
C7_SingleEmissionStaysOpen ==
    /\ [](stream.values # <<>> =>
            /\ promise.state = "fulfilled"
            /\ stream.values = <<[success |-> TRUE,
                                  baseUrl |-> Get(promise.value.o, "url")]>>
            /\ stream.errors = <<>>
            /\ stream.status = "open")
    /\ [][stream.values # <<>> => stream' = stream]_vars

C7_Witness ==
    /\ pc = "settled"
    /\ stream.values = <<[success |-> TRUE, baseUrl |-> Str("http://localhost:8080/")]>>
    /\ stream.status = "open"

\* C8: the delegate is run at most once, as 'serve' with ['serve'], and only
\* after the setup steps and checkUnsupportedConfig were called in order and
\* returned; when one of them fails the delegate is neither constructed nor
\* run and the failure is the stream's error.
C8_DelegateOnceAfterSetup ==
    /\ Len(serviceRuns) <= 1
    /\ Count(calls, "Service") <= 1
    /\ Count(calls, "run") = Len(serviceRuns)
    /\ \A i \in DOMAIN serviceRuns :
          serviceRuns[i].name = "serve" /\ serviceRuns[i].rawArgv = <<"serve">>
    /\ Called("Service") =>
          /\ Len(calls) > Len(SetupOrder)
          /\ SubSeq(calls, 1, Len(SetupOrder)) = SetupOrder
          /\ calls[Len(SetupOrder) + 1] = "Service"
    /\ Called("run") => calls = SetupOrder \o <<"Service", "run">>
    /\ (pc = "failed" /\ calls[Len(calls)] # "Service") =>
          /\ ~Called("Service")
          /\ serviceRuns = <<>>
          /\ promise.state = "none"
          /\ stream.errors = <<calls[Len(calls)]>>
          /\ stream.values = <<>>

C8_Witness ==
    /\ pc = "running"
    /\ Len(serviceRuns) = 1
    /\ calls = SetupOrder \o <<"Service", "run">>

\* C9: open, host, port, https and public go to the delegate as the invocation
\* option when it is truthy and as inlineOptions.devServer's field otherwise,
\* so a falsy invocation value does not override the project config's
\* devServer; copy and stdin are the invocation's, mode and skip-plugins the
\* validated browser options'.
C9_ServeArguments ==
    \A i \in DOMAIN serviceRuns :
        LET args == serviceRuns[i].args
            devServer == Get(inlineOptions, "devServer")
        IN /\ \A k \in {"open", "host", "port", "https", "public"} :
                 /\ Get(options, k) \notin Falsy => args[k] = options[k]
                 /\ Get(options, k) \in Falsy =>
                       args[k] = (IF devServer.t = "obj" /\ k \in DOMAIN devServer.o
                                  THEN devServer.o[k] ELSE Undef)
                 /\ (/\ Get(options, k) \in Falsy
                     /\ Get(vueConfig, "devServer").t = "obj"
                     /\ k \in DOMAIN Get(vueConfig, "devServer").o
                     /\ OptChain(Get(options, "devServer"), k) = Undef)
                        => args[k] = vueConfig["devServer"].o[k]
           /\ args["copy"] = Get(options, "copy")
           /\ args["stdin"] = Get(options, "stdin")
           /\ args["mode"] = Get(browserOptions, "mode")
           /\ args["skip-plugins"] = Get(browserOptions, "skipPlugins")

C9_Witness ==
    /\ Len(serviceRuns) = 1
    /\ Get(options, "https") = Bool(FALSE)
    /\ Get(options, "port") = Num(0)
    /\ Get(options, "host") = Str("")
    /\ serviceRuns[1].args["https"] = Bool(TRUE)
    /\ serviceRuns[1].args["port"] = Num(8080)
    /\ serviceRuns[1].args["host"] = Str("vue.local")

\* C10: inlineOptions.chainWebpack is the adapter's hook, whatever the project
\* config has there, and each invocation applies the five patches in order,
\* then the babel-loader patch iff there is a babel config, then the no-op
\* watcher plugin iff options.watch is falsy, and last the project's
\* chainWebpack, once, iff it is defined.
C10_ChainWebpackOrder ==
    /\ Merged => Get(inlineOptions, "chainWebpack") = AdapterChainWebpack
    /\ \A i \in DOMAIN chainLog :
          LET log == chainLog[i]
              babel == IF babelConfig # Undef THEN 1 ELSE 0
              noWatch == IF Get(options, "watch") \in Falsy THEN 1 ELSE 0
              project == IF Get(vueConfig, "chainWebpack") # Undef THEN 1 ELSE 0
          IN /\ Len(log) = 5 + babel + noWatch + project
             /\ SubSeq(log, 1, 5) =
                   <<"modifyIndexHtmlPath", "modifyEntryPoint", "modifyTsConfigPaths",
                     "modifyCachePaths", "modifyTypescriptAliases">>
             /\ Count(log, "modifyBabelLoader") = babel
             /\ babel = 1 => log[6] = "modifyBabelLoader"
             /\ Count(log, "plugin(vue-cli)") = noWatch
             /\ noWatch = 1 => log[6 + babel] = "plugin(vue-cli)"
             /\ Count(log, "vueConfig.chainWebpack") = project
             /\ project = 1 => log[Len(log)] = "vueConfig.chainWebpack"

C10_Witness ==
    /\ Len(chainLog) = 2
    /\ Get(vueConfig, "chainWebpack") = Fn("chainWebpack@vue-nx.config.js")
    /\ chainLog[1] = <<"modifyIndexHtmlPath", "modifyEntryPoint", "modifyTsConfigPaths",
                       "modifyCachePaths", "modifyTypescriptAliases", "modifyBabelLoader",
                       "plugin(vue-cli)", "vueConfig.chainWebpack">>

====
